---- MODULE Spec2Model ----
(***************************************************************************)
(* Bandcamp code verificator.                                              *)
(*                                                                         *)
(* Spec          BandcampVerificator (src/app/verificator.py) driven the   *)
(*               way cli.py drives it: construct, verify_batch, close.     *)
(*               The steps of verify_code are inlined at the point of the  *)
(*               call.  The remote service, the browser driver, the random *)
(*               delay and the stop predicate are the environment and are  *)
(*               chosen nondeterministically from bounded sets.            *)
(* SpecInit      BandcampVerificator.__init__ from its first line, on      *)
(*               credentials of every spelling.                            *)
(* SpecSanitize  utils.sanitize_codes, applied once and again.             *)
(* SpecCrumb     CredentialExtractor.extract_crumb_from_page.              *)
(* SpecExtract   CredentialExtractor.auto_extract.                         *)
(* SpecCsv       utils.write_results_to_csv.                               *)
(* SpecJson      utils.write_results_to_json, and json.load of its file.   *)
(* SpecCli       cli.py verify (no --dry-run), from the constructor to the *)
(*               end of the command.                                       *)
(* SpecWeb       web/app.py: concurrent POST /api/verify and               *)
(*               /api/auto-extract requests of one client.                 *)
(***************************************************************************)
EXTENDS Integers, Sequences, FiniteSets, TLC

(***************************************************************************)
(* Bounds of the model.                                                    *)
(***************************************************************************)
\* longest code list given to verify_batch
MaxCodes == 4
\* longest code string of the single-code inputs
MaxCodeLen == 2
\* largest min_delay / max_delay argument given to the constructor
MaxDelayArg == 2
\* longest raw text given to sanitize_codes
MaxRawLen == 4
\* largest max_length given to sanitize_codes
MaxLengthArg == 3
\* largest number of nodes of a fetched page
MaxNodes == 3
\* longest result list given to write_results_to_csv / write_results_to_json
MaxRows == 3
\* longest code list given to cli.py verify
MaxCliCodes == 2
\* number of requests the service handles at the same time
MaxRequests == 2

(***************************************************************************)
(* Program constants.                                                      *)
(***************************************************************************)
MIN_DELAY_SEC == 1
MAX_DELAY_SEC == 5
MAX_CRUMB_LENGTH == 512
MAX_CLIENT_ID_LENGTH == 128
MAX_SESSION_LENGTH == 4096

VARIABLES
    \* inputs of the run, fixed by Init
    codes,        \* the list given to verify_batch
    hasStop,      \* a stop_flag callable was given
    hasCb,        \* a progress_callback was given
    minArg,       \* min_delay argument of the constructor (<<>> is None)
    maxArg,       \* max_delay argument of the constructor (<<>> is None)
    style,        \* "cli": close() after verify_batch, as cli.py; "with": __exit__
    remote,       \* "stub" | "any": which answers the remote side can give
    crumbArg,     \* crumb argument of the constructor (<<>> is None)
    clientArg,    \* client_id argument of the constructor
    sessionArg,   \* session argument of the constructor
    \* the verificator object
    attrs,        \* names of the attributes the instance has
    crumb,        \* the crumb of the constructor, given or extracted
    client_id,    \* self.client_id (<<>> while it is not assigned)
    session,      \* self.session
    min_delay,
    max_delay,
    pw,           \* "none" | "started" | "stopped"
    browser,      \* "none" | "open" | "closed"
    \* control
    pc,
    \* locals of verify_batch
    idx,          \* number of loop iterations completed
    results,
    \* locals of verify_code
    delay,
    clock,        \* milliseconds since start_time of the current call
    result,       \* <<r>>: the record r verify_code returned; <<>>: none yet
    \* history of the run
    consults,     \* number of stop_flag() calls so far
    stopAt,       \* the consultation at which stop_flag() returned true, 0 if none
    begun,        \* number of verify_code calls begun
    slept,        \* durations given to time.sleep in the current verify_code call
    touched,      \* the current verify_code call has used the page
    submits,      \* number of times the current call has submitted the code
    resp,         \* <<o>>: the outcome o of the current call's page interaction
    cbLog,        \* arguments of the progress_callback calls
    \* utils.sanitize_codes
    raw_text,     \* its raw_text argument
    max_length,   \* its max_length argument
    sanitized,    \* the list it returned
    resanitized,  \* the list it returned for "\n".join(sanitized)
    \* auto_extract.CredentialExtractor
    cookie_lib,   \* BROWSER_COOKIE_AVAILABLE
    jars,         \* what the cookie store of each installed browser holds
    browser_name, \* the browser_name argument of auto_extract (<<>> is None)
    scraping,     \* SCRAPING_AVAILABLE
    site,         \* what the browser session of extract_crumb_from_page meets
    extractor,    \* the attributes of the CredentialExtractor instance
    launches,     \* number of chromium.launch() calls of the extractor
    fetches,      \* number of page.goto() calls of the extractor
    method,       \* the pattern that gave the crumb, 0 if none
    ret,          \* <<v>>: the value v the call under study returned
    \* utils.write_results_to_csv
    to_write,     \* its results argument
    csv_file,     \* the file at output_path: <<>> if none, else <<contents>>
    \* utils.write_results_to_json
    json_file,    \* the file at output_path: <<>> if none, else <<contents>>
    reparsed,     \* <<v>>: the value v json.load gave for that file
    \* cli.py verify
    format,       \* --format: "csv" | "json" ("" outside the command)
    printed,      \* what the command has written to the terminal
    exit_code,    \* <<n>>: the process has ended with status n
    \* web/app.py
    cookie,       \* the Flask session the requests come with
    requests,     \* the requests in progress: their JSON, position and answer
    verificators, \* the dictionary of create_app: key -> instance
    created       \* the keys of the BandcampVerificator instances constructed

vars == <<codes, hasStop, hasCb, minArg, maxArg, style, remote,
          crumbArg, clientArg, sessionArg, crumb, client_id, session,
          attrs, min_delay, max_delay, pw, browser, pc, idx, results,
          delay, clock, result, consults, stopAt, begun, slept, touched,
          submits, resp, cbLog,
          raw_text, max_length, sanitized, resanitized,
          cookie_lib, jars, browser_name,
          scraping, site, extractor, launches, fetches, method, ret,
          to_write, csv_file, json_file, reparsed,
          format, printed, exit_code,
          cookie, requests, verificators, created>>

inputs == <<codes, hasStop, hasCb, minArg, maxArg, style, remote>>
object == <<attrs, min_delay, max_delay, pw, browser>>
history == <<consults, stopAt, begun, slept, touched, submits, resp, cbLog>>
credentials == <<crumbArg, clientArg, sessionArg, crumb, client_id, session>>
sanitizer == <<raw_text, max_length, sanitized, resanitized>>
stores == <<cookie_lib, jars, browser_name>>
extraction == <<stores, scraping, site, extractor, launches, fetches, method, ret>>

\* the state of a verificator run without pc, and the state of everything
\* that is no part of a verificator run
run == <<inputs, object, idx, results, delay, clock, result, history>>
sink == <<to_write, csv_file, json_file, reparsed>>
command == <<format, printed, exit_code>>
service == <<cookie, requests, verificators, created>>
beyond == <<command, service>>
apart_from_service == <<credentials, sanitizer, extraction, sink, command>>
apart == <<credentials, sanitizer, extraction, sink, beyond>>

\* sanitize_codes is not in use
SanitizerIdle ==
    /\ raw_text = <<>>
    /\ max_length = 0
    /\ sanitized = <<>>
    /\ resanitized = <<>>

\* no CredentialExtractor exists
ExtractionIdle ==
    /\ cookie_lib = FALSE
    /\ jars = <<>>
    /\ browser_name = <<>>
    /\ scraping = FALSE
    /\ site = <<>>
    /\ extractor = <<>>
    /\ launches = 0
    /\ fetches = 0
    /\ method = 0
    /\ ret = <<>>

\* nothing is written
SinkIdle ==
    /\ to_write = <<>>
    /\ csv_file = <<>>
    /\ json_file = <<>>
    /\ reparsed = <<>>

\* no command is run
CommandIdle ==
    /\ format = ""
    /\ printed = <<>>
    /\ exit_code = <<>>

\* no service is running
ServiceIdle ==
    /\ cookie = <<>>
    /\ requests = <<>>
    /\ verificators = <<>>
    /\ created = <<>>

BeyondIdle == CommandIdle /\ ServiceIdle

ApartIdle == SanitizerIdle /\ ExtractionIdle /\ SinkIdle /\ BeyondIdle

(***************************************************************************)
(* Strings are sequences of characters; Python's None for an optional     *)
(* integer is the empty sequence and a value n is <<n>>.                   *)
(***************************************************************************)
Whitespace == {" ", "\t", "\n", "\r"}
Chars == {" ", "A"}

None == <<>>
Some(n) == <<n>>

RECURSIVE SeqsUpTo(_, _)
SeqsUpTo(S, n) ==
    IF n = 0 THEN {<<>>}
    ELSE LET shorter == SeqsUpTo(S, n - 1)
         IN  shorter \cup {Append(s, x) : s \in shorter, x \in S}

\* str.lstrip()
RECURSIVE lstrip(_)
lstrip(s) ==
    IF s # <<>> /\ Head(s) \in Whitespace THEN lstrip(Tail(s)) ELSE s

\* str.rstrip()
RECURSIVE rstrip(_)
rstrip(s) ==
    IF s # <<>> /\ s[Len(s)] \in Whitespace
    THEN rstrip(SubSeq(s, 1, Len(s) - 1))
    ELSE s

\* str.strip()
strip(s) == rstrip(lstrip(s))

(***************************************************************************)
(* The remote's answers.  A response body is either text (response.json()  *)
(* failed and response.text() was taken) or a JSON object; of a JSON       *)
(* object only the `errors` member is read.  An entry of `errors` is an    *)
(* object with or without a `reason`, or something that is no object.      *)
(***************************************************************************)
Entry(isDict, hasReason, reason) ==
    [isDict |-> isDict, hasReason |-> hasReason, reason |-> reason]

Entries ==
    { Entry(TRUE, TRUE, "already redeemed"),   \* {"reason": "already redeemed"}
      Entry(TRUE, FALSE, ""),                  \* {}
      Entry(FALSE, FALSE, "") }                \* "oops": not an object

Body(kind, hasErrors, errors) ==
    [kind |-> kind, hasErrors |-> hasErrors, errors |-> errors]

TextBody == Body("text", FALSE, <<>>)
EmptyDict == Body("dict", FALSE, <<>>)
NoBody == Body("none", FALSE, <<>>)           \* "body": None

Bodies ==
    {TextBody, EmptyDict, Body("dict", TRUE, <<>>)}
        \cup {Body("dict", TRUE, <<e>>) : e \in Entries}

Statuses == {199, 200, 299, 300, 503}
Durations == {0, 40}

\* One outcome of the page interaction of verify_code: Playwright raised
\* (exc), or the verify response arrived with a status and a body after ms.
\* `raised` is the class of the exception: Playwright's Error, or its
\* TimeoutError when a wait of the interaction ran out.
Outcome(exc, status, body, ms) ==
    [exc |-> exc, raised |-> IF exc THEN "Error" ELSE "",
     status |-> status, body |-> body, ms |-> ms]

\* page.expect_response(..., timeout=15000) ran out
TimedOut == [Outcome(TRUE, 0, NoBody, 15000) EXCEPT !.raised = "TimeoutError"]

\* str(e) of the exception the except branch catches
str_of(raised) ==
    CASE raised = "TimeoutError" -> "Timeout 15000ms exceeded."
      [] raised = "AttributeError" -> "'str' object has no attribute 'get'"
      [] OTHER -> "net::ERR_CONNECTION_REFUSED"

AllOutcomes ==
    {Outcome(TRUE, 0, NoBody, ms) : ms \in Durations}
        \cup {TimedOut}
        \cup {Outcome(FALSE, st, b, ms) : st \in Statuses, b \in Bodies, ms \in Durations}

\* the stub of the list inputs: a Playwright failure, `200 {}` and
\* `200 {"errors":[{"reason":"already redeemed"}]}`
BatchOutcomes ==
    { Outcome(TRUE, 0, NoBody, 0),
      Outcome(FALSE, 200, EmptyDict, 40),
      Outcome(FALSE, 200, Body("dict", TRUE, <<Entry(TRUE, TRUE, "already redeemed")>>), 40) }

\* the outcomes the remote side of this run can produce
Outcomes == IF remote = "stub" THEN BatchOutcomes ELSE AllOutcomes

(***************************************************************************)
(* The `error` member of a result: None, a string of the remote, or one of *)
(* the f-strings of verify_code.                                           *)
(***************************************************************************)
Err(kind, text, status) == [kind |-> kind, text |-> text, status |-> status]
NoneErr == Err("none", "", 0)
TextErr(s) == Err("text", s, 0)
HttpErr(st) == Err("http", "HTTP ", st)                       \* f"HTTP {api_status}"
InvalidErr(msg) == Err("invalid", msg, 0)                     \* f"Invalid code: {...}"
\* f"Browser automation error: {str(e)}"
BrowserErr(msg) == Err("browser", "Browser automation error: " \o msg, 0)
\* f"Request error: {str(e)}", of the second except clause
RequestErr(msg) == Err("request", "Request error: " \o msg, 0)

\* the string is not None and not ""
NonEmptyErr(e) == e.kind # "none" /\ e.text # ""

Result(code, ok, status, d, ms, body, error, success) ==
    [code |-> code, ok |-> ok, status |-> status, delay_sec |-> d,
     elapsed_ms |-> ms, body |-> body, error |-> error, success |-> success]

(***************************************************************************)
(* utils.validate_input, called with code only: the keys of the errors     *)
(* dictionary it returns.                                                  *)
(***************************************************************************)
\* a slip: `not code` instead of `not code.strip()`
validate_input_unstripped(code) ==
    IF code = <<>> THEN {"code"} ELSE {}

validate_input(code) ==
    IF strip(code) = <<>> THEN {"code"} ELSE {}

\* errors.get('code') of that dictionary
validate_input_message == "Code cannot be empty"

(***************************************************************************)
(* The classification of verify_code.                                      *)
(***************************************************************************)
\* ok = (200 <= api_status < 300)
ok_of(api_status) == 200 <= api_status /\ api_status < 300

\* isinstance(api_body, dict) and api_body.get('errors')
has_errors(api_body) ==
    api_body.kind = "dict" /\ api_body.hasErrors /\ Len(api_body.errors) > 0

\* a slip: the errors payload is not looked at
success_payload_status_only(api_status, api_body) == ok_of(api_status)

\* success_payload
success_payload(api_status, api_body) ==
    IF has_errors(api_body) THEN FALSE ELSE ok_of(api_status)

\* api_body.get('errors', [{}])[0].get('reason') raises AttributeError when
\* the first entry is no object
reason_raises(api_body) ==
    has_errors(api_body) /\ ~ api_body.errors[1].isDict

\* api_body.get('errors', [{}])[0].get('reason')
first_reason(api_body) ==
    LET e == api_body.errors[1]
    IN  IF e.hasReason THEN TextErr(e.reason) ELSE NoneErr

\* a slip: the generic message is used whatever the body says
error_of_generic(api_status, api_body) ==
    IF success_payload(api_status, api_body) THEN NoneErr ELSE HttpErr(api_status)

\* the "error" member of the record of a response
error_of(api_status, api_body) ==
    IF success_payload(api_status, api_body) THEN NoneErr
    ELSE IF has_errors(api_body) THEN first_reason(api_body)
    ELSE HttpErr(api_status)

\* the record of the second except clause, which no exception reaches: the
\* first clause catches Exception as well
request_error_result(code, d, ms, msg) ==
    Result(code, FALSE, 0, d, ms, NoBody, RequestErr(msg), FALSE)

\* the record of the except branch
except_result(code, d, ms, msg) ==
    Result(code, FALSE, 0, d, ms, NoBody, BrowserErr(msg), FALSE)

\* the record verify_code returns for outcome o of the page interaction
submit_result(code, d, ms, o) ==
    IF o.exc THEN except_result(code, d, ms, str_of(o.raised))
    ELSE IF reason_raises(o.body)
    THEN except_result(code, d, ms, str_of("AttributeError"))
    ELSE Result(code, ok_of(o.status), o.status, d, ms, o.body,
                error_of(o.status, o.body),
                success_payload(o.status, o.body))

\* the record of the validation short cut
invalid_result(code) ==
    Result(code, FALSE, 0, 0, 0, NoBody, InvalidErr(validate_input_message), FALSE)

\* x or default
or_default(x, default) ==
    IF x = None \/ x = Some(0) THEN default ELSE x[1]

(***************************************************************************)
(* Inputs.  Two families: code lists of up to MaxCodes codes against a     *)
(* small stub, and single codes of every spelling against everything the   *)
(* remote can answer and every delay configuration.  cli.py gives up       *)
(* before it constructs a verificator when it has no codes, so an empty    *)
(* list comes only from a caller of the class itself.                      *)
(***************************************************************************)
BatchCodes == {<<"A">>, <<"B">>, <<" ">>}
CodeStrings == SeqsUpTo(Chars, MaxCodeLen)
DelayArgs == {None} \cup {Some(n) : n \in 0..MaxDelayArg}

\* one delay configuration with a single possible delay and one whose range
\* is empty
BatchDelayArgs == {<<Some(1), Some(1)>>, <<Some(2), Some(1)>>}

BatchInputs ==
    /\ codes \in SeqsUpTo(BatchCodes, MaxCodes)
    /\ hasStop \in BOOLEAN
    /\ hasCb \in BOOLEAN
    /\ \E p \in BatchDelayArgs : minArg = p[1] /\ maxArg = p[2]
    /\ style \in IF codes = <<>> THEN {"with"} ELSE {"cli", "with"}
    /\ remote = "stub"

CodeInputs ==
    /\ codes \in {<<c>> : c \in CodeStrings}
    /\ hasStop = FALSE
    /\ hasCb = FALSE
    /\ minArg \in DelayArgs
    /\ maxArg \in DelayArgs
    /\ style \in {"cli", "with"}
    /\ remote = "any"

\* credentials that have passed validate_input and are stored
Validated ==
    /\ crumbArg = Some(<<"c">>)
    /\ clientArg = Some(<<"i">>)
    /\ sessionArg = Some(<<"s">>)
    /\ crumb = crumbArg
    /\ client_id = clientArg
    /\ session = sessionArg

Init ==
    /\ BatchInputs \/ CodeInputs
    /\ Validated
    /\ attrs = {}
    /\ min_delay = 0
    /\ max_delay = 0
    /\ pw = "none"
    /\ browser = "none"
    /\ pc = "start"
    /\ idx = 0
    /\ results = <<>>
    /\ delay = 0
    /\ clock = 0
    /\ result = <<>>
    /\ consults = 0
    /\ stopAt = 0
    /\ begun = 0
    /\ slept = <<>>
    /\ touched = FALSE
    /\ submits = 0
    /\ resp = <<>>
    /\ cbLog = <<>>
    /\ ApartIdle

(***************************************************************************)
(* BandcampVerificator.__init__ with credentials that pass validate_input, *)
(* followed by _init_browser, each call of which may raise.                *)
(***************************************************************************)
InitAttrs ==
    {"crumb", "client_id", "session", "identity", "min_delay", "max_delay",
     "pw", "browser", "context", "page"}

\* how far _init_browser gets: sync_playwright().start(), chromium.launch(),
\* page.goto()
InitBrowserOutcomes == {"start_raises", "launch_raises", "goto_raises", "ok"}

BandcampVerificator_init ==
    /\ pc = "start"
    /\ attrs' = InitAttrs
    /\ min_delay' = or_default(minArg, MIN_DELAY_SEC)
    /\ max_delay' = or_default(maxArg, MAX_DELAY_SEC)
    /\ \E o \in InitBrowserOutcomes :
         /\ pw' = IF o = "start_raises" THEN "none" ELSE "started"
         /\ browser' = IF o \in {"goto_raises", "ok"} THEN "open" ELSE "none"
         /\ pc' = IF o = "ok" THEN "ready" ELSE "init_raised"
    /\ UNCHANGED <<apart, inputs, idx, results, delay, clock, result, history>>

(***************************************************************************)
(* verify_batch                                                            *)
(***************************************************************************)
\* results = [], total = len(codes)
verify_batch_enter ==
    /\ pc = "ready"
    /\ results' = <<>>
    /\ idx' = 0
    /\ pc' = "check"
    /\ UNCHANGED <<apart, inputs, object, delay, clock, result, history>>

\* the loop takes the next code: no stop_flag, or stop_flag() is false
verify_batch_next ==
    /\ pc = "check"
    /\ idx < Len(codes)
    /\ consults' = IF hasStop THEN consults + 1 ELSE consults
    /\ pc' = "call"
    /\ UNCHANGED <<apart, inputs, object, idx, results, delay, clock, result,
                   stopAt, begun, slept, touched, submits, resp, cbLog>>

\* a slip: the flag is read but the break is missing
verify_batch_stop_no_break ==
    /\ pc = "check"
    /\ idx < Len(codes)
    /\ hasStop
    /\ consults' = consults + 1
    /\ stopAt' = consults + 1
    /\ pc' = "call"
    /\ UNCHANGED <<apart, inputs, object, idx, results, delay, clock, result,
                   begun, slept, touched, submits, resp, cbLog>>

\* stop_flag() is true: break, and the results so far are returned
verify_batch_stop ==
    /\ pc = "check"
    /\ idx < Len(codes)
    /\ hasStop
    /\ consults' = consults + 1
    /\ stopAt' = consults + 1
    /\ pc' = "returned"
    /\ UNCHANGED <<apart, inputs, object, idx, results, delay, clock, result,
                   begun, slept, touched, submits, resp, cbLog>>

\* the codes are exhausted: the results are returned
verify_batch_done ==
    /\ pc = "check"
    /\ idx = Len(codes)
    /\ pc' = "returned"
    /\ UNCHANGED <<apart, inputs, object, idx, results, delay, clock, result, history>>

\* a slip: the record is appended twice
verify_batch_append_twice ==
    /\ pc = "append"
    /\ results' = Append(Append(results, result[1]), result[1])
    /\ pc' = "progress"
    /\ UNCHANGED <<apart, inputs, object, idx, delay, clock, result, history>>

\* a slip: results.insert(0, result)
verify_batch_append_front ==
    /\ pc = "append"
    /\ results' = <<result[1]>> \o results
    /\ pc' = "progress"
    /\ UNCHANGED <<apart, inputs, object, idx, delay, clock, result, history>>

\* results.append(result)
verify_batch_append ==
    /\ pc = "append"
    /\ results' = Append(results, result[1])
    /\ pc' = "progress"
    /\ UNCHANGED <<apart, inputs, object, idx, delay, clock, result, history>>

\* a slip: progress_callback(idx, total, result)
verify_batch_progress_from_zero ==
    /\ pc = "progress"
    /\ cbLog' = IF hasCb
                THEN Append(cbLog, [current |-> idx, total |-> Len(codes),
                                    result |-> result[1]])
                ELSE cbLog
    /\ idx' = idx + 1
    /\ pc' = "check"
    /\ UNCHANGED <<apart, inputs, object, results, delay, clock, result,
                   consults, stopAt, begun, slept, touched, submits, resp>>

\* progress_callback(idx + 1, total, result), and on to the next iteration
verify_batch_progress ==
    /\ pc = "progress"
    /\ cbLog' = IF hasCb
                THEN Append(cbLog, [current |-> idx + 1, total |-> Len(codes),
                                    result |-> result[1]])
                ELSE cbLog
    /\ idx' = idx + 1
    /\ pc' = "check"
    /\ UNCHANGED <<apart, inputs, object, results, delay, clock, result,
                   consults, stopAt, begun, slept, touched, submits, resp>>

(***************************************************************************)
(* verify_code(codes[idx], index=idx, total=total)                        *)
(***************************************************************************)
\* start_time, validate_input(code=code) and the short cut on its errors
verify_code_enter ==
    /\ pc = "call"
    /\ begun' = begun + 1
    /\ clock' = 0
    /\ slept' = <<>>
    /\ touched' = FALSE
    /\ submits' = 0
    /\ resp' = <<>>
    /\ IF validate_input(codes[idx + 1]) # {}
       THEN /\ result' = <<invalid_result(codes[idx + 1])>>
            /\ pc' = "append"
       ELSE /\ result' = <<>>
            /\ pc' = "delay"
    /\ UNCHANGED <<apart, inputs, object, idx, results, delay, consults, stopAt, cbLog>>

\* delay = random.randint(self.min_delay, self.max_delay); time.sleep(delay).
\* randint raises ValueError on an empty range; the statement is outside the
\* try, so the exception leaves verify_code and verify_batch.  (Negative
\* delays, on which time.sleep raises, are not among the inputs.)
verify_code_delay ==
    /\ pc = "delay"
    /\ IF min_delay > max_delay
       THEN /\ pc' = "raised"
            /\ UNCHANGED <<delay, slept, clock>>
       ELSE \E d \in min_delay..max_delay :
              /\ delay' = d
              /\ slept' = Append(slept, d)
              /\ clock' = clock + 1000 * d
              /\ pc' = "submit"
    /\ UNCHANGED <<apart, inputs, object, idx, results, result,
                   consults, stopAt, begun, touched, submits, resp, cbLog>>

\* the try block: the page interaction, the classification of the response
\* and the except branch
verify_code_submit ==
    /\ pc = "submit"
    /\ \E o \in Outcomes :
         /\ resp' = <<o>>
         /\ clock' = clock + o.ms
         /\ result' = <<submit_result(codes[idx + 1], delay, clock + o.ms, o)>>
    /\ touched' = TRUE
    /\ submits' = submits + 1
    /\ pc' = "append"
    /\ UNCHANGED <<apart, inputs, object, idx, results, delay,
                   consults, stopAt, begun, slept, cbLog>>

(***************************************************************************)
(* Release.  The class body defines close twice; the second definition     *)
(* rebinds the name, so close() is the one that reads self.http_session.   *)
(***************************************************************************)
\* def close (first definition): browser.close(), pw.stop()
close_browser ==
    /\ browser' = IF browser = "open" THEN "closed" ELSE browser
    /\ pw' = IF pw = "started" THEN "stopped" ELSE pw
    /\ pc' = "closed"

\* def close (second definition): self.http_session is no attribute of the
\* instance, the read raises AttributeError
close_session ==
    /\ pc' = IF "http_session" \in attrs THEN "closed" ELSE "close_raised"
    /\ UNCHANGED <<browser, pw>>

close == close_session

\* cli.py: verificator.close() after verify_batch has returned; an exception
\* of verify_batch is not handled and close() is not reached
cli_close ==
    /\ style = "cli"
    /\ pc = "returned"
    /\ close
    /\ UNCHANGED <<apart, inputs, attrs, min_delay, max_delay, idx, results, delay,
                   clock, result, history>>

\* __exit__: close(), whether the with block returned or raised
exit ==
    /\ style = "with"
    /\ pc \in {"returned", "raised"}
    /\ close
    /\ UNCHANGED <<apart, inputs, attrs, min_delay, max_delay, idx, results, delay,
                   clock, result, history>>

Next ==
    \/ BandcampVerificator_init
    \/ verify_batch_enter
    \/ verify_batch_next
    \/ verify_batch_stop
    \/ verify_batch_done
    \/ verify_code_enter
    \/ verify_code_delay
    \/ verify_code_submit
    \/ verify_batch_append
    \/ verify_batch_progress
    \/ cli_close
    \/ exit

Spec == Init /\ [][Next]_vars

\* no credentials are given or stored
NoCredentialsGiven ==
    /\ crumbArg = None
    /\ clientArg = None
    /\ sessionArg = None
    /\ crumb = None
    /\ client_id = None
    /\ session = None

\* no verificator is constructed
NoRun ==
    /\ codes = <<>>
    /\ hasStop = FALSE
    /\ hasCb = FALSE
    /\ minArg = None
    /\ maxArg = None
    /\ style = "with"
    /\ remote = "stub"
    /\ attrs = {}
    /\ min_delay = 0
    /\ max_delay = 0
    /\ pw = "none"
    /\ browser = "none"
    /\ idx = 0
    /\ results = <<>>
    /\ delay = 0
    /\ clock = 0
    /\ result = <<>>
    /\ consults = 0
    /\ stopAt = 0
    /\ begun = 0
    /\ slept = <<>>
    /\ touched = FALSE
    /\ submits = 0
    /\ resp = <<>>
    /\ cbLog = <<>>

(***************************************************************************)
(* utils.sanitize_codes, applied to a raw text and then to the lines it    *)
(* returned joined by newlines.                                            *)
(***************************************************************************)
RawChars == {"A", " ", "\n", "\r"}

\* raw_text.replace("\r\n", "\n").replace("\r", "\n")
RECURSIVE normalize_newlines(_)
normalize_newlines(s) ==
    IF s = <<>> THEN <<>>
    ELSE IF Len(s) >= 2 /\ s[1] = "\r" /\ s[2] = "\n"
    THEN <<"\n">> \o normalize_newlines(SubSeq(s, 3, Len(s)))
    ELSE IF s[1] = "\r"
    THEN <<"\n">> \o normalize_newlines(Tail(s))
    ELSE <<s[1]>> \o normalize_newlines(Tail(s))

\* s.split("\n"): the pieces between the newlines, one more than there are
\* newlines
RECURSIVE split(_)
split(s) ==
    IF \A i \in 1..Len(s) : s[i] # "\n" THEN <<s>>
    ELSE LET k == CHOOSE i \in 1..Len(s) :
                      s[i] = "\n" /\ \A j \in 1..(i - 1) : s[j] # "\n"
         IN  <<SubSeq(s, 1, k - 1)>> \o split(SubSeq(s, k + 1, Len(s)))

\* "\n".join(lines)
RECURSIVE join(_)
join(lines) ==
    IF lines = <<>> THEN <<>>
    ELSE IF Len(lines) = 1 THEN lines[1]
    ELSE lines[1] \o <<"\n">> \o join(Tail(lines))

\* code[:n], n negative included
truncate(code, n) ==
    IF n >= 0 THEN SubSeq(code, 1, IF n < Len(code) THEN n ELSE Len(code))
    ELSE SubSeq(code, 1, Len(code) + n)

\* if len(code) > max_length: code = code[:max_length]
clip(code, n) ==
    IF Len(code) > n THEN truncate(code, n) ELSE code

\* the loop over the lines: trim, skip the empty ones, cut, append
RECURSIVE sanitize_lines(_, _)
sanitize_lines(lines, n) ==
    IF lines = <<>> THEN <<>>
    ELSE LET code == strip(lines[1])
         IN  IF code = <<>> THEN sanitize_lines(Tail(lines), n)
             ELSE <<clip(code, n)>> \o sanitize_lines(Tail(lines), n)

sanitize_codes(text, n) ==
    sanitize_lines(split(normalize_newlines(text)), n)

SanitizeInit ==
    /\ raw_text \in SeqsUpTo(RawChars, MaxRawLen)
    /\ max_length \in 1..MaxLengthArg
    /\ sanitized = <<>>
    /\ resanitized = <<>>
    /\ pc = "sanitize"
    /\ NoRun
    /\ BeyondIdle
    /\ SinkIdle
    /\ NoCredentialsGiven
    /\ ExtractionIdle

\* codes = sanitize_codes(raw_text, max_length)
sanitize ==
    /\ pc = "sanitize"
    /\ sanitized' = sanitize_codes(raw_text, max_length)
    /\ pc' = "sanitized"
    /\ UNCHANGED <<run, beyond, sink, credentials, extraction, raw_text, max_length, resanitized>>

\* sanitize_codes("\n".join(codes), max_length)
resanitize ==
    /\ pc = "sanitized"
    /\ resanitized' = sanitize_codes(join(sanitized), max_length)
    /\ pc' = "resanitized"
    /\ UNCHANGED <<run, beyond, sink, credentials, extraction, raw_text, max_length, sanitized>>

SanitizeNext ==
    \/ sanitize
    \/ resanitize

SpecSanitize == SanitizeInit /\ [][SanitizeNext]_vars

(***************************************************************************)
(* CredentialExtractor.extract_crumb_from_page.  An optional string is     *)
(* <<>> for None and <<s>> for the string s.  A fetched page is a sequence *)
(* of nodes in document order: an element that has a data-crumb            *)
(* attribute, a script element, or markup outside the scripts.  The text   *)
(* of a script or of markup is the sequence of the places in it where one  *)
(* of the regular expressions matches:                                     *)
(*   quoted    "crumb": "v"                                                *)
(*   bare      crumb: "v"                                                  *)
(*   escaped   &quot;crumb&quot;:&quot;v&quot;                             *)
(* The regular expressions ask for a value of at least one character; the  *)
(* attribute may be empty.                                                 *)
(***************************************************************************)
\* a value is truthy: not None and not ""
truthy(opt) == opt # None /\ opt[1] # <<>>

CrumbValues == {<<"x">>, <<"y">>}

Fragment(form, value) == [form |-> form, value |-> value]
Node(kind, value, text) == [kind |-> kind, value |-> value, text |-> text]

Texts ==
    { <<>>,
      <<Fragment("quoted", <<"x">>)>>,
      <<Fragment("quoted", <<"y">>)>>,
      <<Fragment("bare", <<"x">>)>>,
      <<Fragment("bare", <<"y">>)>>,
      <<Fragment("escaped", <<"x">>)>>,
      <<Fragment("escaped", <<"y">>)>>,
      <<Fragment("bare", <<"x">>), Fragment("quoted", <<"y">>)>>,
      <<Fragment("quoted", <<"x">>), Fragment("quoted", <<"y">>)>>,
      <<Fragment("quoted", <<"x">>), Fragment("escaped", <<"y">>)>> }

Nodes ==
    {Node("attr", v, <<>>) : v \in CrumbValues \cup {<<>>}}
        \cup {Node("script", <<>>, t) : t \in Texts}
        \cup {Node("markup", <<>>, t) : t \in Texts}

Pages == SeqsUpTo(Nodes, MaxNodes)

\* the matches of one regular expression in a text, in order
matches(text, form) == SelectSeq(text, LAMBDA f : f.form = form)

\* html_text as the regular expressions of methods 3 and 4 see it
RECURSIVE html_text(_)
html_text(page) ==
    IF page = <<>> THEN <<>> ELSE page[1].text \o html_text(Tail(page))

NotFound == [found |-> FALSE, crumb |-> None, method |-> 0]
Found(v, k) == [found |-> TRUE, crumb |-> Some(v), method |-> k]

\* method 2: for script in scripts, the quoted form and then the bare form
RECURSIVE scan_scripts(_)
scan_scripts(scripts) ==
    IF scripts = <<>> THEN NotFound
    ELSE LET quoted == matches(scripts[1].text, "quoted")
             bare == matches(scripts[1].text, "bare")
         IN  IF quoted # <<>> THEN Found(quoted[1].value, 2)
             ELSE IF bare # <<>> THEN Found(bare[1].value, 3)
             ELSE scan_scripts(Tail(scripts))

\* a slip: the scripts are searched before the data-crumb attribute
parse_crumb_scripts_first(page) ==
    LET elems == SelectSeq(page, LAMBDA n : n.kind = "attr")
        inScripts == scan_scripts(SelectSeq(page, LAMBDA n : n.kind = "script"))
    IN  IF inScripts.found THEN inScripts
        ELSE IF elems # <<>> THEN Found(elems[1].value, 1)
        ELSE NotFound

\* the chain from soup.find to the last re.search
parse_crumb(page) ==
    LET elems == SelectSeq(page, LAMBDA n : n.kind = "attr")
        inScripts == scan_scripts(SelectSeq(page, LAMBDA n : n.kind = "script"))
        escaped == matches(html_text(page), "escaped")
        quoted == matches(html_text(page), "quoted")
    IN  IF elems # <<>> THEN Found(elems[1].value, 1)
        ELSE IF inScripts.found THEN inScripts
        ELSE IF escaped # <<>> THEN Found(escaped[1].value, 4)
        ELSE IF quoted # <<>> THEN Found(quoted[1].value, 5)
        ELSE NotFound

\* what the browser session of extract_crumb_from_page meets: Playwright
\* fails to start or to launch, the navigation fails, or the page arrives
Site(nav, page) == [nav |-> nav, page |-> page]

Failures ==
    {Site("start_raises", <<>>), Site("launch_raises", <<>>),
     Site("goto_raises", <<>>)}

Extractor(cid, ses, idn, crm) ==
    [client_id |-> cid, session |-> ses, identity |-> idn, crumb |-> crm]

\* CredentialExtractor()
NewExtractor == Extractor(None, None, None, None)

\* extract_crumb_from_page on the extractor e: the value returned, the
\* extractor afterwards, the pattern that matched, the launches and the
\* navigations made
crumb_from_page(e, available, st) ==
    LET failed(l, f) == [ok |-> FALSE, extractor |-> e, method |-> 0,
                         launches |-> l, fetches |-> f]
        parsed == parse_crumb(st.page)
    IN  IF ~ available THEN failed(0, 0)
        ELSE IF ~ truthy(e.client_id) \/ ~ truthy(e.session) THEN failed(0, 0)
        ELSE IF st.nav = "start_raises" THEN failed(0, 0)
        ELSE IF st.nav = "launch_raises" THEN failed(1, 0)
        ELSE IF st.nav = "goto_raises" THEN failed(1, 1)
        ELSE IF parsed.found
        THEN [ok |-> TRUE, extractor |-> [e EXCEPT !.crumb = parsed.crumb],
              method |-> parsed.method, launches |-> 1, fetches |-> 1]
        ELSE failed(1, 1)

\* an extractor whose cookies are set
WithCookies == Extractor(Some(<<"i">>), Some(<<"s">>), None, None)

\* extractors whose cookies are set, empty or missing
CrumbExtractors ==
    { WithCookies,
      Extractor(Some(<<"i">>), Some(<<>>), None, None),
      Extractor(None, Some(<<"s">>), None, None) }

\* every page for an extractor that can fetch it, and one page for the
\* extractors and installations that cannot
CrumbInit ==
    /\ \/ /\ scraping = TRUE
          /\ extractor = WithCookies
          /\ site \in Failures \cup {Site("ok", p) : p \in Pages}
       \/ /\ scraping \in BOOLEAN
          /\ extractor \in CrumbExtractors
          /\ site = Site("ok", <<Node("attr", <<"x">>, <<>>)>>)
    /\ launches = 0
    /\ fetches = 0
    /\ method = 0
    /\ ret = <<>>
    /\ cookie_lib = FALSE
    /\ jars = <<>>
    /\ browser_name = None
    /\ pc = "extract_crumb"
    /\ NoRun
    /\ BeyondIdle
    /\ SinkIdle
    /\ NoCredentialsGiven
    /\ SanitizerIdle

extract_crumb_from_page ==
    /\ pc = "extract_crumb"
    /\ LET r == crumb_from_page(extractor, scraping, site)
       IN  /\ ret' = <<r.ok>>
           /\ extractor' = r.extractor
           /\ method' = r.method
           /\ launches' = launches + r.launches
           /\ fetches' = fetches + r.fetches
    /\ pc' = "extracted"
    /\ UNCHANGED <<run, beyond, sink, credentials, sanitizer, stores, scraping, site>>

CrumbNext == extract_crumb_from_page

SpecCrumb == CrumbInit /\ [][CrumbNext]_vars

(***************************************************************************)
(* CredentialExtractor.extract_from_browser and auto_extract.  The cookie  *)
(* store of a browser either cannot be read (browser_cookie3 raises) or    *)
(* holds some of the cookies client_id, session and identity; the value a  *)
(* store holds is named after its browser.                                 *)
(***************************************************************************)
\* browsers.keys(), in the order of the dictionary
browsers == <<"chrome", "firefox", "edge", "chromium">>

Jar(raises, has_client_id, has_session, has_identity) ==
    [raises |-> raises, client_id |-> has_client_id, session |-> has_session,
     identity |-> has_identity]

JarShapes ==
    {Jar(TRUE, FALSE, FALSE, FALSE)}
        \cup {Jar(FALSE, c, s, i) : c \in BOOLEAN, s \in BOOLEAN, i \in BOOLEAN}

\* the value of a cookie in the store of browser b
CookieOf(b) == Some(<<b>>)

\* to_try: [browser_name] when it names a known browser, else every browser
to_try(name) ==
    IF name # None /\ \E i \in 1..Len(browsers) : browsers[i] = name[1]
    THEN <<name[1]>>
    ELSE browsers

\* for cookie in jar: the cookies found replace the attributes
read_jar(e, b, jar) ==
    Extractor(IF jar.client_id THEN CookieOf(b) ELSE e.client_id,
              IF jar.session THEN CookieOf(b) ELSE e.session,
              IF jar.identity THEN CookieOf(b) ELSE e.identity,
              e.crumb)

\* for browser in to_try: the attributes afterwards and the value returned
RECURSIVE read_browsers(_, _, _)
read_browsers(e, names, stores_) ==
    IF names = <<>> THEN [ok |-> FALSE, extractor |-> e]
    ELSE IF stores_[names[1]].raises
    THEN read_browsers(e, Tail(names), stores_)
    ELSE LET e1 == read_jar(e, names[1], stores_[names[1]])
         IN  IF truthy(e1.client_id) /\ truthy(e1.session) /\ truthy(e1.identity)
             THEN [ok |-> TRUE, extractor |-> e1]
             ELSE read_browsers(e1, Tail(names), stores_)

extract_from_browser(e, available, name, stores_) ==
    IF ~ available THEN [ok |-> FALSE, extractor |-> e]
    ELSE read_browsers(e, to_try(name), stores_)

\* x or ''
or_empty(opt) == IF opt = None THEN <<>> ELSE opt[1]

\* the dictionary {} and the dictionary of the three credentials
NoCredentials == [k \in {} |-> <<>>]
Credentials(e) ==
    [client_id |-> or_empty(e.client_id), session |-> or_empty(e.session),
     crumb |-> or_empty(e.crumb)]

BrowserNames == {None, Some("firefox"), Some("opera")}

\* the pages auto_extract is run against: one with a crumb, one without
ExtractSites ==
    { Site("goto_raises", <<>>),
      Site("ok", <<>>),
      Site("ok", <<Node("attr", <<"x">>, <<>>)>>) }

\* every content of the four stores where browser_cookie3 is installed
ExtractInit ==
    /\ \/ /\ cookie_lib = TRUE
          /\ jars \in [{browsers[i] : i \in 1..Len(browsers)} -> JarShapes]
       \/ /\ cookie_lib = FALSE
          /\ jars = [b \in {browsers[i] : i \in 1..Len(browsers)} |->
                       Jar(FALSE, TRUE, TRUE, TRUE)]
    /\ browser_name \in BrowserNames
    /\ scraping = TRUE
    /\ site \in ExtractSites
    /\ extractor = NewExtractor
    /\ launches = 0
    /\ fetches = 0
    /\ method = 0
    /\ ret = <<>>
    /\ pc = "auto_extract"
    /\ NoRun
    /\ BeyondIdle
    /\ SinkIdle
    /\ NoCredentialsGiven
    /\ SanitizerIdle

\* Step 1: if not self.extract_from_browser(browser_name): return False, {}
auto_extract_cookies ==
    /\ pc = "auto_extract"
    /\ LET r == extract_from_browser(extractor, cookie_lib, browser_name, jars)
       IN  /\ extractor' = r.extractor
           /\ IF r.ok
              THEN /\ pc' = "cookies_read"
                   /\ ret' = ret
              ELSE /\ pc' = "auto_extracted"
                   /\ ret' = <<[success |-> FALSE, credentials |-> NoCredentials]>>
    /\ UNCHANGED <<run, beyond, sink, credentials, sanitizer, stores, scraping, site, launches, fetches,
                   method>>

\* Step 2: self.extract_crumb_from_page(), whose failure is only logged
auto_extract_crumb ==
    /\ pc = "cookies_read"
    /\ LET r == crumb_from_page(extractor, scraping, site)
       IN  /\ extractor' = r.extractor
           /\ method' = r.method
           /\ launches' = launches + r.launches
           /\ fetches' = fetches + r.fetches
    /\ pc' = "crumb_tried"
    /\ UNCHANGED <<run, beyond, sink, credentials, sanitizer, stores, scraping, site, ret>>

\* return success, credentials
auto_extract_return ==
    /\ pc = "crumb_tried"
    /\ ret' = <<[success |-> truthy(extractor.client_id) /\ truthy(extractor.session),
                 credentials |-> Credentials(extractor)]>>
    /\ pc' = "auto_extracted"
    /\ UNCHANGED <<run, beyond, sink, credentials, sanitizer, stores, scraping, site, extractor, launches,
                   fetches, method>>

ExtractNext ==
    \/ auto_extract_cookies
    \/ auto_extract_crumb
    \/ auto_extract_return

SpecExtract == ExtractInit /\ [][ExtractNext]_vars

(***************************************************************************)
(* BandcampVerificator.__init__ from its first line: the crumb is          *)
(* extracted when none is given, the credentials are validated, cleaned    *)
(* and stored, and the browser is started (BandcampVerificator_init).      *)
(***************************************************************************)
\* the string of n characters c
Repeat(c, n) == [i \in 1..n |-> c]

\* utils.validate_input(crumb=, client_id=, session=, max_...=): the keys of
\* the errors dictionary; an argument that is None is not looked at
field_error(opt, max_len) ==
    opt # None /\ (strip(opt[1]) = <<>> \/ Len(opt[1]) > max_len)

validate_credentials(crumb_, client_id_, session_) ==
    {k \in {"crumb", "client_id", "session"} :
        \/ k = "crumb" /\ field_error(crumb_, MAX_CRUMB_LENGTH)
        \/ k = "client_id" /\ field_error(client_id_, MAX_CLIENT_ID_LENGTH)
        \/ k = "session" /\ field_error(session_, MAX_SESSION_LENGTH)}

\* utils.sanitize_cookie_value: trim, drop CR, LF and semicolons, cut
sanitize_cookie_value(value, max_len) ==
    clip(SelectSeq(strip(value), LAMBDA c : c \notin {"\r", "\n", ";"}), max_len)

CrumbArgs ==
    { None, Some(<<>>), Some(<<" ">>), Some(<<"c">>),
      Some(Repeat("c", MAX_CRUMB_LENGTH)), Some(Repeat("c", MAX_CRUMB_LENGTH + 1)) }

\* spellings of a cookie value around the length limit n
CookieArgs(n) ==
    { None, Some(<<>>), Some(<<" ">>), Some(<<";">>), Some(<<"A">>),
      Some(<<" ", "A", ";", "\n">>),
      Some(Repeat("A", n)), Some(Repeat("A", n + 1)) }

\* the pages the constructor's extractor can meet
CtorSites ==
    { Site("start_raises", <<>>),
      Site("goto_raises", <<>>),
      Site("ok", <<>>),
      Site("ok", <<Node("attr", <<"x">>, <<>>)>>) }

CtorInit ==
    /\ crumbArg \in CrumbArgs
    /\ clientArg \in CookieArgs(MAX_CLIENT_ID_LENGTH)
    /\ sessionArg \in CookieArgs(MAX_SESSION_LENGTH)
    /\ crumb = None
    /\ client_id = None
    /\ session = None
    /\ scraping \in BOOLEAN
    /\ site \in CtorSites
    /\ cookie_lib = FALSE
    /\ jars = <<>>
    /\ browser_name = None
    /\ extractor = <<>>
    /\ launches = 0
    /\ fetches = 0
    /\ method = 0
    /\ ret = <<>>
    /\ pc = "new"
    /\ NoRun
    /\ BeyondIdle
    /\ SinkIdle
    /\ SanitizerIdle

\* if not crumb: the extractor is given the cookies as they came and
\* extract_crumb_from_page() is called
init_crumb ==
    /\ pc = "new"
    /\ IF truthy(crumbArg)
       THEN /\ crumb' = crumbArg
            /\ UNCHANGED <<extractor, launches, fetches, method>>
       ELSE LET e == Extractor(clientArg, sessionArg, None, None)
                r == crumb_from_page(e, scraping, site)
            IN  /\ extractor' = r.extractor
                /\ crumb' = IF r.ok THEN r.extractor.crumb ELSE crumbArg
                /\ method' = r.method
                /\ launches' = launches + r.launches
                /\ fetches' = fetches + r.fetches
    /\ pc' = "validate"
    /\ UNCHANGED <<run, beyond, sink, sanitizer, stores, scraping, site, ret,
                   crumbArg, clientArg, sessionArg, client_id, session>>

\* validate_input, raise ValueError on errors, else the credentials are
\* stored; sanitize_cookie_value(None, ...) raises AttributeError
init_validate ==
    /\ pc = "validate"
    /\ IF validate_credentials(crumb, clientArg, sessionArg) # {}
       THEN /\ pc' = "rejected"
            /\ UNCHANGED <<client_id, session>>
       ELSE IF clientArg = None
       THEN /\ pc' = "init_raised"
            /\ UNCHANGED <<client_id, session>>
       ELSE IF sessionArg = None
       THEN /\ pc' = "init_raised"
            /\ client_id' = Some(sanitize_cookie_value(clientArg[1], MAX_CLIENT_ID_LENGTH))
            /\ UNCHANGED session
       ELSE /\ pc' = "start"
            /\ client_id' = Some(sanitize_cookie_value(clientArg[1], MAX_CLIENT_ID_LENGTH))
            /\ session' = Some(sanitize_cookie_value(sessionArg[1], MAX_SESSION_LENGTH))
    /\ UNCHANGED <<run, beyond, sink, sanitizer, extraction, crumbArg, clientArg, sessionArg,
                   crumb>>

CtorNext ==
    \/ init_crumb
    \/ init_validate
    \/ BandcampVerificator_init

SpecInit == CtorInit /\ [][CtorNext]_vars

(***************************************************************************)
(* utils.write_results_to_csv.  A file is its header and its rows; a cell  *)
(* holds the value that was given to the writer, and the response cell     *)
(* holds str(body), of the JSON text of the body when the body is a dict.  *)
(***************************************************************************)
fieldnames ==
    <<"no", "code", "http_status", "delay_sec", "elapsed_ms", "response",
      "success">>

\* json.dumps(body)
json_dumps(body) == [form |-> "json", of |-> body]

\* str(body) of a body that is a string, or None
str(body) == [form |-> "str", of |-> body]

\* the response cell
response_cell(body) ==
    IF body.kind = "dict" THEN json_dumps(body) ELSE str(body)

\* writer.writerow({...}) for the idx-th result
csv_row(no, r) ==
    [no |-> no, code |-> r.code, http_status |-> r.status,
     delay_sec |-> r.delay_sec, elapsed_ms |-> r.elapsed_ms,
     response |-> response_cell(r.body), success |-> r.success]

File(header, rows) == [header |-> header, rows |-> rows]

\* the file write_results_to_csv leaves at output_path, given the one there
csv_written(rs, before) ==
    IF rs = <<>> THEN before
    ELSE Some(File(fieldnames, [i \in 1..Len(rs) |-> csv_row(i, rs[i])]))

\* records as verify_code returns them
CsvResults ==
    { submit_result(<<"A">>, 1, 1040, Outcome(FALSE, 200, EmptyDict, 40)),
      submit_result(<<"B">>, 1, 1040,
                    Outcome(FALSE, 200,
                            Body("dict", TRUE, <<Entry(TRUE, TRUE, "already redeemed")>>),
                            40)),
      submit_result(<<"A">>, 2, 2000, Outcome(FALSE, 503, TextBody, 0)),
      submit_result(<<"B">>, 1, 1000, Outcome(TRUE, 0, NoBody, 0)),
      invalid_result(<<" ">>) }

\* a file left at output_path by an earlier run
OldFile == Some(File(fieldnames, <<csv_row(1, invalid_result(<<" ">>))>>))

CsvInit ==
    /\ to_write \in SeqsUpTo(CsvResults, MaxRows)
    /\ csv_file \in {None, OldFile}
    /\ json_file = None
    /\ reparsed = None
    /\ pc = "write_csv"
    /\ NoRun
    /\ BeyondIdle
    /\ NoCredentialsGiven
    /\ SanitizerIdle
    /\ ExtractionIdle

write_results_to_csv ==
    /\ pc = "write_csv"
    /\ csv_file' = csv_written(to_write, csv_file)
    /\ pc' = "written"
    /\ UNCHANGED <<run, beyond, credentials, sanitizer, extraction, to_write,
                   json_file, reparsed>>

CsvNext == write_results_to_csv

SpecCsv == CsvInit /\ [][CsvNext]_vars

(***************************************************************************)
(* utils.write_results_to_json.  The file holds a JSON text, kept as the   *)
(* tree of its values: an object is the list of its members in the order   *)
(* they were written, an array the list of its elements, and true, false   *)
(* and null are literals.  json.load turns the tree into Python values     *)
(* again: an object into a dictionary, a literal into True, False or None. *)
(***************************************************************************)
Json(t, v) == [t |-> t, v |-> v]
JsonBool(b) == Json(IF b THEN "true" ELSE "false", <<>>)

\* an entry of the `errors` list of a response body
json_of_entry(e) ==
    IF ~ e.isDict THEN Json("string", "oops")
    ELSE IF e.hasReason
    THEN Json("object", << <<"reason", Json("string", e.reason)>> >>)
    ELSE Json("object", <<>>)

\* the "body" member: a dictionary, response.text(), or None
json_of_body(b) ==
    CASE b.kind = "none" -> Json("null", <<>>)
      [] b.kind = "text" -> Json("string", "<html>")
      [] OTHER ->
           IF b.hasErrors
           THEN Json("object",
                     << <<"errors",
                          Json("array", [i \in 1..Len(b.errors) |->
                                            json_of_entry(b.errors[i])])>> >>)
           ELSE Json("object", <<>>)

\* the "error" member: None or a string
json_of_error(e) ==
    CASE e.kind = "none" -> Json("null", <<>>)
      [] e.kind = "http" -> Json("string", <<e.text, e.status>>)
      [] OTHER -> Json("string", e.text)

\* one record, its members in the order verify_code builds them
json_of_result(r) ==
    Json("object", << <<"ok", JsonBool(r.ok)>>,
                      <<"status", Json("number", r.status)>>,
                      <<"delay_sec", Json("number", r.delay_sec)>>,
                      <<"elapsed_ms", Json("number", r.elapsed_ms)>>,
                      <<"body", json_of_body(r.body)>>,
                      <<"error", json_of_error(r.error)>>,
                      <<"code", Json("string", r.code)>>,
                      <<"success", JsonBool(r.success)>> >>)

\* a slip: the list is written last record first
json_of_results_reversed(rs) ==
    Json("array", [i \in 1..Len(rs) |-> json_of_result(rs[Len(rs) + 1 - i])])

\* the list of records
json_of_results(rs) ==
    Json("array", [i \in 1..Len(rs) |-> json_of_result(rs[i])])

\* json.dump({"total": len(results), "results": results}, f, ...)
json_dump(rs) ==
    Json("object", << <<"total", Json("number", Len(rs))>>,
                      <<"results", json_of_results(rs)>> >>)

\* json.load: the Python value of a JSON text; of the members of an object
\* that share a name the last one counts
RECURSIVE json_load(_)
json_load(j) ==
    CASE j.t = "null" -> None
      [] j.t = "true" -> TRUE
      [] j.t = "false" -> FALSE
      [] j.t = "array" -> [i \in 1..Len(j.v) |-> json_load(j.v[i])]
      [] j.t = "object" ->
           [k \in {j.v[i][1] : i \in 1..Len(j.v)} |->
               LET last == CHOOSE i \in 1..Len(j.v) :
                               /\ j.v[i][1] = k
                               /\ \A n \in 1..Len(j.v) : j.v[n][1] = k => n <= i
               IN  json_load(j.v[last][2])]
      [] OTHER -> j.v

\* a file left at output_path by an earlier run
OldJsonFile == Some(json_dump(<<invalid_result(<<" ">>)>>))

JsonInit ==
    /\ to_write \in SeqsUpTo(CsvResults, MaxRows)
    /\ json_file \in {None, OldJsonFile}
    /\ reparsed = None
    /\ csv_file = None
    /\ pc = "write_json"
    /\ NoRun
    /\ BeyondIdle
    /\ NoCredentialsGiven
    /\ SanitizerIdle
    /\ ExtractionIdle

\* open(path, "w") replaces what the file held
write_results_to_json ==
    /\ pc = "write_json"
    /\ json_file' = Some(json_dump(to_write))
    /\ pc' = "json_written"
    /\ UNCHANGED <<run, beyond, credentials, sanitizer, extraction, to_write,
                   csv_file, reparsed>>

\* the file is read again
reparse ==
    /\ pc = "json_written"
    /\ reparsed' = Some(json_load(json_file[1]))
    /\ pc' = "json_reparsed"
    /\ UNCHANGED <<run, beyond, credentials, sanitizer, extraction, to_write,
                   csv_file, json_file>>

JsonNext == write_results_to_json \/ reparse

SpecJson == JsonInit /\ [][JsonNext]_vars

(***************************************************************************)
(* cli.py verify without --dry-run, from the construction of the           *)
(* verificator on.  The codes have passed sanitize_codes and are not       *)
(* empty, the three credentials are non-empty strings (the command has     *)
(* exited otherwise), no delays and no stop_flag are given.  The command   *)
(* catches ValueError around the constructor and nothing else; an          *)
(* exception that is not caught ends the process with a traceback and      *)
(* status 1.                                                               *)
(***************************************************************************)
CliCodes == {<<"A">>, <<"B">>}

Message(kind, of) == [kind |-> kind, of |-> of]

\* self.print(f"Error: {e}", "red bold") for the ValueError of the constructor
ErrorMessage == Message("error", "Validation errors")

\* the traceback the interpreter prints for an exception nobody caught
Traceback == Message("traceback", "")

\* Total codes / Successful / Failed
Summary(rs) ==
    LET success_count == Cardinality({i \in 1..Len(rs) : rs[i].success})
    IN  Message("summary", [total |-> Len(rs), successful |-> success_count,
                            failed |-> Len(rs) - success_count])

\* the second definition of close reads self.http_session
close_raises == "http_session" \notin attrs

CliInit ==
    /\ codes \in SeqsUpTo(CliCodes, MaxCliCodes) \ {<<>>}
    /\ hasStop = FALSE
    /\ hasCb = TRUE
    /\ minArg = None
    /\ maxArg = None
    /\ style = "cli"
    /\ remote = "stub"
    /\ crumbArg \in {Some(<<"c">>), Some(<<" ">>)}
    /\ clientArg = Some(<<"i">>)
    /\ sessionArg = Some(<<"s">>)
    /\ crumb = None
    /\ client_id = None
    /\ session = None
    /\ attrs = {}
    /\ min_delay = 0
    /\ max_delay = 0
    /\ pw = "none"
    /\ browser = "none"
    /\ idx = 0
    /\ results = <<>>
    /\ delay = 0
    /\ clock = 0
    /\ result = <<>>
    /\ consults = 0
    /\ stopAt = 0
    /\ begun = 0
    /\ slept = <<>>
    /\ touched = FALSE
    /\ submits = 0
    /\ resp = <<>>
    /\ cbLog = <<>>
    /\ format \in {"csv", "json"}
    /\ printed = <<>>
    /\ exit_code = None
    /\ ServiceIdle
    /\ to_write = <<>>
    /\ csv_file \in {None, OldFile}
    /\ json_file = None
    /\ reparsed = None
    /\ pc = "new"
    /\ SanitizerIdle
    /\ ExtractionIdle

\* except ValueError as e: the message, and sys.exit(1)
cli_value_error ==
    /\ pc = "rejected"
    /\ printed' = Append(printed, ErrorMessage)
    /\ exit_code' = Some(1)
    /\ pc' = "cli_exited"
    /\ UNCHANGED <<run, credentials, sanitizer, extraction, sink, format, service>>

\* an exception of the constructor that is no ValueError, of verify_batch or
\* of close() leaves verify_command and main
cli_uncaught ==
    /\ pc \in {"init_raised", "raised", "close_raised"}
    /\ printed' = Append(printed, Traceback)
    /\ exit_code' = Some(1)
    /\ pc' = "cli_crashed"
    /\ UNCHANGED <<run, credentials, sanitizer, extraction, sink, format, service>>

\* the rest of the command once verify_batch has returned:
\* verificator.close(), the summary, and the results saved to --output
cli_finish ==
    /\ pc = "returned"
    /\ IF close_raises
       THEN /\ pc' = "close_raised"
            /\ UNCHANGED <<sink, command>>
       ELSE /\ printed' = printed \o <<Summary(results), Message("saved", "")>>
            /\ csv_file' = IF format = "csv" THEN csv_written(results, csv_file)
                           ELSE csv_file
            /\ json_file' = IF format = "json" THEN Some(json_dump(results))
                            ELSE json_file
            /\ exit_code' = Some(0)
            /\ pc' = "cli_done"
            /\ UNCHANGED <<to_write, reparsed, format>>
    /\ UNCHANGED <<run, credentials, sanitizer, extraction, service>>

CliNext ==
    \/ init_crumb
    \/ init_validate
    \/ BandcampVerificator_init
    \/ cli_value_error
    \/ verify_batch_enter
    \/ verify_batch_next
    \/ verify_batch_done
    \/ verify_code_enter
    \/ verify_code_delay
    \/ verify_code_submit
    \/ verify_batch_append
    \/ verify_batch_progress
    \/ cli_finish
    \/ cli_uncaught

SpecCli == CliInit /\ [][CliNext]_vars

(***************************************************************************)
(* web/app.py.  The server handles requests concurrently (app.run starts   *)
(* the threaded development server); the handlers share the dictionary     *)
(* `verificators`, which no lock protects.  A handler is cut into steps    *)
(* where it reads or writes that dictionary; everything else of a handler  *)
(* is local to its request.  The requests are those one client sends at    *)
(* the same time, all with the session cookie the client holds.  The body  *)
(* of a request is a JSON object, or the JSON text `null`, for which       *)
(* request.json is None.                                                   *)
(***************************************************************************)
Requests == 1..MaxRequests

\* Config.BANDCAMP_CRUMB, when the environment does not set it
BANDCAMP_CRUMB == <<>>

\* the module has `import os`, `import secrets` and no `import time`
time_imported == FALSE

\* the token index() has put into the session
Token == <<"t">>

Request(endpoint, json, csrf, code, crumb_) ==
    [endpoint |-> endpoint,
     json |-> json,                 \* request.json is a dictionary
     csrf_token |-> csrf,           \* its "csrf_token" (<<>> is absent)
     code |-> code,
     crumb |-> crumb_,
     client_id |-> <<"i">>,
     session |-> <<"s">>,
     at |-> "received",
     session_id |-> <<>>,
     key |-> <<>>,
     verificator |-> 0,             \* the instance read from the dictionary
     calls |-> 0,                   \* verify_code calls made for the request
     extractions |-> 0,             \* auto_extract runs made for the request
     response |-> None]

VerifyRequests ==
    { Request("verify", FALSE, None, <<>>, <<>>),
      Request("verify", TRUE, None, <<"A">>, <<"c">>),
      Request("verify", TRUE, Some(<<"u">>), <<"A">>, <<"c">>),
      Request("verify", TRUE, Some(Token), <<"A">>, <<"c">>),
      Request("verify", TRUE, Some(Token), <<" ">>, <<"c">>),
      Request("verify", TRUE, Some(Token), <<"A">>, <<" ">>),
      Request("verify", TRUE, Some(Token), <<"B">>, <<"d">>) }

ExtractRequests ==
    { Request("auto-extract", FALSE, None, <<>>, <<>>),
      Request("auto-extract", TRUE, Some(<<>>), <<>>, <<>>),
      Request("auto-extract", TRUE, Some(<<"u">>), <<>>, <<>>),
      Request("auto-extract", TRUE, Some(Token), <<>>, <<>>) }

\* the session: index() has stored a csrf_token or the page was never
\* loaded; an earlier /api/verify has stored a session_id or not
Cookies ==
    {[csrf_token |-> t, session_id |-> i] :
        t \in {None, Some(Token)}, i \in {None, Some(<<"s">>)}}

\* jsonify(...), status: the result members are there for a 200 of
\* /api/verify
Response(status, ok, members) ==
    [status |-> status, ok |-> ok, members |-> members]

\* the members of the 200 answer of /api/verify
ResultMembers(r) ==
    Some([ok |-> r.ok, status |-> r.status, delay_sec |-> r.delay_sec,
          elapsed_ms |-> r.elapsed_ms, body |-> r.body, error |-> r.error])

\* not csrf_token or csrf_token != session.get("csrf_token")
csrf_rejected(q) ==
    \/ ~ q.json
    \/ ~ truthy(q.csrf_token)
    \/ q.csrf_token # cookie.csrf_token

\* secrets.token_hex(16): a value no other request has
token_hex(n) == Repeat("n", n)

\* f"{session_id}_{crumb}_{client_id}"
verificator_key(session_id, crumb_, client_id_) ==
    session_id \o <<"_">> \o crumb_ \o <<"_">> \o client_id_

\* x or Config.BANDCAMP_CRUMB
crumb_of(q) == IF q.crumb = <<>> THEN BANDCAMP_CRUMB ELSE q.crumb

\* requests[n] with some members changed
answered(q, status, ok, members) ==
    [q EXCEPT !.at = "answered", !.response = Some(Response(status, ok, members))]

WebInit ==
    /\ cookie \in Cookies
    /\ requests \in [Requests -> VerifyRequests \cup ExtractRequests]
    /\ verificators = <<>>
    /\ created = <<>>
    /\ pc = "serving"
    /\ NoRun
    /\ CommandIdle
    /\ NoCredentialsGiven
    /\ SanitizerIdle
    /\ ExtractionIdle
    /\ SinkIdle

\* /api/verify up to the verificator key: the CSRF check (request.json.get
\* on None raises outside the try, and Flask answers 500), the request data,
\* validate_input, the session_id
api_verify_begin ==
    /\ \E n \in Requests :
         LET q == requests[n]
             errors == validate_input(q.code)
                           \cup validate_credentials(None, Some(q.client_id),
                                                      Some(q.session))
             sid == IF truthy(cookie.session_id) THEN cookie.session_id[1]
                    ELSE token_hex(n)
         IN  /\ q.endpoint = "verify"
             /\ q.at = "received"
             /\ requests' =
                  [requests EXCEPT ![n] =
                     IF ~ q.json THEN answered(q, 500, FALSE, None)
                     ELSE IF csrf_rejected(q) THEN answered(q, 419, FALSE, None)
                     ELSE IF errors # {} THEN answered(q, 400, FALSE, None)
                     ELSE [q EXCEPT !.at = "lookup",
                                    !.session_id = sid,
                                    !.key = verificator_key(sid, crumb_of(q),
                                                            q.client_id)]]
    /\ UNCHANGED <<run, pc, apart_from_service, cookie, verificators, created>>

\* if verificator_key not in verificators
api_verify_lookup ==
    /\ \E n \in Requests :
         LET q == requests[n]
         IN  /\ q.at = "lookup"
             /\ requests' =
                  [requests EXCEPT ![n].at =
                     IF \E i \in 1..Len(verificators) : verificators[i].key = q.key
                     THEN "use" ELSE "create"]
    /\ UNCHANGED <<run, pc, apart_from_service, cookie, verificators, created>>

\* verificators[verificator_key] = BandcampVerificator(...): the constructor
\* raises ValueError (400), the browser fails (500), or the instance is
\* stored in place of the one the key had
api_verify_create ==
    /\ \E n \in Requests :
         LET q == requests[n]
             instance == Len(created) + 1
             others == SelectSeq(verificators, LAMBDA e : e.key # q.key)
         IN  /\ q.at = "create"
             /\ IF validate_credentials(Some(crumb_of(q)), Some(q.client_id),
                                        Some(q.session)) # {}
                THEN /\ requests' = [requests EXCEPT ![n] = answered(q, 400, FALSE, None)]
                     /\ UNCHANGED <<verificators, created>>
                ELSE \E o \in InitBrowserOutcomes :
                       IF o # "ok"
                       THEN /\ requests' = [requests EXCEPT
                                               ![n] = answered(q, 500, FALSE, None)]
                            /\ UNCHANGED <<verificators, created>>
                       ELSE /\ created' = Append(created, q.key)
                            /\ verificators' =
                                 Append(others, [key |-> q.key, instance |-> instance])
                            /\ requests' = [requests EXCEPT ![n].at = "use"]
    /\ UNCHANGED <<run, pc, apart_from_service, cookie>>

\* verificator = verificators[verificator_key]; verificator.last_used =
\* time.time(), a NameError that `except Exception` turns into a 500; else
\* verify_code and the 200 answer
api_verify_use ==
    /\ \E n \in Requests :
         LET q == requests[n]
             entry == CHOOSE e \in {verificators[i] : i \in 1..Len(verificators)} :
                          e.key = q.key
             q1 == [q EXCEPT !.verificator = entry.instance]
         IN  /\ q.at = "use"
             /\ IF ~ time_imported
                THEN requests' = [requests EXCEPT ![n] = answered(q1, 500, FALSE, None)]
                ELSE \E d \in MIN_DELAY_SEC..MAX_DELAY_SEC, o \in BatchOutcomes :
                       LET r == submit_result(q.code, d, 1000 * d + o.ms, o)
                       IN  requests' =
                             [requests EXCEPT
                                ![n] = answered([q1 EXCEPT !.calls = q.calls + 1],
                                                200, r.ok, ResultMembers(r))]
    /\ UNCHANGED <<run, pc, apart_from_service, cookie, verificators, created>>

\* /api/auto-extract: the CSRF check, then CredentialExtractor().auto_extract
api_auto_extract ==
    /\ \E n \in Requests :
         LET q == requests[n]
             q1 == [q EXCEPT !.extractions = q.extractions + 1]
         IN  /\ q.endpoint = "auto-extract"
             /\ q.at = "received"
             /\ IF csrf_rejected(q)
                THEN requests' = [requests EXCEPT ![n] = answered(q, 419, FALSE, None)]
                ELSE \E o \in {"success", "failure", "raises"} :
                       requests' =
                         [requests EXCEPT
                            ![n] = CASE o = "success" -> answered(q1, 200, TRUE, None)
                                     [] o = "failure" -> answered(q1, 400, FALSE, None)
                                     [] OTHER -> answered(q1, 500, FALSE, None)]
    /\ UNCHANGED <<run, pc, apart_from_service, cookie, verificators, created>>

WebNext ==
    \/ api_verify_begin
    \/ api_verify_lookup
    \/ api_verify_create
    \/ api_verify_use
    \/ api_auto_extract

SpecWeb == WebInit /\ [][WebNext]_vars

(***************************************************************************)
(* Vocabulary of the properties.                                           *)
(***************************************************************************)
\* verify_code has returned and its record is not yet appended
Returned == pc = "append"

\* the code of the verify_code call in progress
code_now == codes[idx + 1]

\* the code is empty after trimming
IsBlank(c) == \A i \in 1..Len(c) : c[i] \in Whitespace

\* the body carries a non-empty `errors` list
CarriesErrors(b) == b.kind = "dict" /\ b.hasErrors /\ b.errors # <<>>

\* every record produced so far: those of the list and the one just returned
Records ==
    {results[j] : j \in 1..Len(results)} \cup {result[j] : j \in 1..Len(result)}

\* the value a constructor argument stands for: itself, or the Config
\* default when it is None
Configured(arg, default) == IF arg = None THEN default ELSE arg[1]

(***************************************************************************)
(* C1.  The list verify_batch returns is never longer than the code list,  *)
(* and is exactly as long when there is no stop_flag or it never returned  *)
(* true.  The length bound holds of the list at every moment of the loop.  *)
(***************************************************************************)
C1_ResultCount ==
    /\ Len(results) <= Len(codes)
    /\ pc = "returned" =>
         ((~ hasStop \/ stopAt = 0) => Len(results) = Len(codes))

\* a stop_flag that was consulted for every code and never returned true
C1_Witness ==
    /\ pc = "returned"
    /\ hasStop
    /\ stopAt = 0
    /\ consults = MaxCodes
    /\ Len(results) = MaxCodes

(***************************************************************************)
(* C2.  stop_flag is consulted once before each code and nowhere else; if  *)
(* its k-th consultation is the first to return true, verify_code is not   *)
(* called for codes k..n and verify_batch returns normally with exactly    *)
(* the k-1 records of the codes before; when verify_batch returns, every   *)
(* code whose verify_code call began has its record in the list.           *)
(***************************************************************************)
C2_Cancellation ==
    /\ consults = IF hasStop
                  THEN begun + (IF pc = "call" THEN 1 ELSE 0)
                             + (IF stopAt > 0 THEN 1 ELSE 0)
                  ELSE 0
    /\ stopAt > 0 =>
         /\ stopAt = consults
         /\ begun = stopAt - 1
         /\ Len(results) = stopAt - 1
         /\ pc \in {"returned", "closed", "close_raised"}
    /\ pc = "returned" => Len(results) = begun

\* more than three codes, stop_flag true before the 3rd: two records
C2_Witness ==
    /\ pc = "returned"
    /\ Len(codes) > 3
    /\ stopAt = 3
    /\ Len(results) = 2

(***************************************************************************)
(* C3.  The codes are verified one at a time in input order: a call of     *)
(* verify_code begins only when every earlier call has returned and its    *)
(* record is in the list, the call is for the code right after the ones    *)
(* recorded, and the j-th record carries the j-th code.                    *)
(***************************************************************************)
C3_SequentialOrder ==
    /\ \A j \in 1..Len(results) : results[j].code = codes[j]
    /\ begun \in {Len(results), Len(results) + 1}
    /\ pc = "call" => begun = Len(results) /\ idx = Len(results)
    /\ pc \in {"delay", "submit", "append"} =>
         begun = Len(results) + 1 /\ idx = Len(results)
    /\ Returned => result[1].code = codes[Len(results) + 1]

\* a list of three pairwise different codes, all recorded
C3_Witness ==
    /\ pc = "returned"
    /\ Len(results) >= 3
    /\ results[1].code # results[2].code
    /\ results[2].code # results[3].code
    /\ results[1].code # results[3].code

(***************************************************************************)
(* C4 as stated.  Every result with success == true has a status in        *)
(* [200,299), that is 200 <= status < 299, and a body that carries no      *)
(* non-empty `errors` list.                                                *)
(***************************************************************************)
C4_Original ==
    \A r \in Records :
        r.success => /\ 200 <= r.status /\ r.status < 299
                     /\ ~ CarriesErrors(r.body)

(***************************************************************************)
(* C4 amended.  Every result with success == true has a status in          *)
(* [200,300), that is 200 <= status <= 299, and a body that carries no     *)
(* non-empty `errors` list.                                                *)
(***************************************************************************)
C4_SuccessImplies2xxNoErrors ==
    \A r \in Records :
        r.success => /\ 200 <= r.status /\ r.status <= 299
                     /\ ~ CarriesErrors(r.body)

\* a success at status 299, and the remote could also have sent errors
C4_Witness ==
    /\ Returned
    /\ result[1].success
    /\ result[1].status = 299
    /\ \E o \in Outcomes : ~ o.exc /\ o.status = 299 /\ CarriesErrors(o.body)

C6_RejectionHasReason ==
    (Returned /\ resp # <<>> /\ ~ resp[1].exc /\ ~ result[1].success
       /\ (CarriesErrors(resp[1].body) => resp[1].body.errors[1].isDict)) =>
        LET o == resp[1]
            r == result[1]
            withReason == /\ CarriesErrors(o.body)
                          /\ o.body.errors[1].hasReason
        IN  /\ NonEmptyErr(r.error)
            /\ r.error = IF withReason
                         THEN TextErr(o.body.errors[1].reason)
                         ELSE HttpErr(o.status)

(***************************************************************************)
(* C7.  For every verify_code call that passes code validation the         *)
(* result's delay_sec is an integer between the min_delay and max_delay    *)
(* given to the constructor (the Config defaults only where none is        *)
(* given), 0 included, and elapsed_ms >= 0.                                *)
(***************************************************************************)
C7_DelayWithinConfigured ==
    (Returned /\ ~ IsBlank(code_now)) =>
        /\ result[1].delay_sec \in Int
        /\ Configured(minArg, MIN_DELAY_SEC) <= result[1].delay_sec
        /\ result[1].delay_sec <= Configured(maxArg, MAX_DELAY_SEC)
        /\ result[1].elapsed_ms >= 0

(***************************************************************************)
(* C8.  verify_code never raises: every call that began returns a record   *)
(* (with success=false on failure), so that verify_batch goes on to the    *)
(* next code and no per-code failure aborts the batch.                     *)
(***************************************************************************)
C8_VerifyCodeNeverRaises ==
    /\ pc # "raised"
    /\ (pc = "close_raised" \/ pc = "closed") => Len(results) = begun

(***************************************************************************)
(* C9.  The browser of the verificator is closed (browser closed,          *)
(* Playwright stopped) on every exit path of the run: once the run of a    *)
(* constructed verificator has ended, no browser opened by it is open.     *)
(***************************************************************************)
RunEnded ==
    \/ pc \in {"closed", "close_raised"}
    \/ style = "cli" /\ pc = "raised"

C9_BrowserReleased ==
    RunEnded => browser # "open" /\ pw # "started"

(***************************************************************************)
(* C10.  verify_code on a code that is empty after trimming returns at     *)
(* once success=false, status 0, delay_sec 0, elapsed_ms 0 and an          *)
(* invalid-code error, without sleeping and without touching the page;     *)
(* every other code is delayed first, once, and only then submitted.       *)
(***************************************************************************)
C10_BlankCodeShortCut ==
    /\ (Returned /\ IsBlank(code_now)) =>
         /\ result[1].success = FALSE
         /\ result[1].status = 0
         /\ result[1].delay_sec = 0
         /\ result[1].elapsed_ms = 0
         /\ result[1].error.kind = "invalid"
         /\ slept = <<>>
         /\ ~ touched
    /\ (Returned /\ ~ IsBlank(code_now)) =>
         /\ touched
         /\ Len(slept) = 1
         /\ result[1].delay_sec = slept[1]
    /\ (pc \in {"delay", "submit", "append"} /\ touched) => Len(slept) = 1
    /\ pc = "submit" => Len(slept) = 1 /\ ~ touched

\* a code of white space only, answered by the short cut
C10_Witness ==
    /\ Returned
    /\ code_now # <<>>
    /\ IsBlank(code_now)
    /\ result[1].error.kind = "invalid"
    /\ clock = 0

(***************************************************************************)
(* C11.  When the remote answers the verification call with a status in    *)
(* {429, 500, 502, 503, 504}, the call is retried inside the same          *)
(* verify_code invocation, up to 3 times: a record that carries such a     *)
(* status is returned only after more than one and at most 1 + 3           *)
(* submissions, and the invocation returns exactly one record.             *)
(***************************************************************************)
RetryStatuses == {429, 500, 502, 503, 504}

C11_RetriedOnTransientStatus ==
    (Returned /\ resp # <<>> /\ ~ resp[1].exc
       /\ resp[1].status \in RetryStatuses) =>
        /\ submits > 1
        /\ submits <= 1 + 3
        /\ Len(result) = 1

(***************************************************************************)
(* C12.  A timeout of the remote verification call yields a record whose   *)
(* error is tagged as a timeout; every other exception of the call yields  *)
(* a record whose error is the generic "Request error" one, so that the    *)
(* two are told apart by the tag.                                          *)
(***************************************************************************)
C12_TimeoutTagged ==
    (Returned /\ resp # <<>> /\ resp[1].exc) =>
        IF resp[1].raised = "TimeoutError"
        THEN result[1].error.kind = "timeout"
        ELSE result[1].error.kind = "request"

(***************************************************************************)
(* C13.  sanitize_codes is idempotent: for every raw text and every        *)
(* max_length, sanitizing the newline-joined output of                     *)
(* sanitize_codes(raw_text, max_length) again with the same max_length      *)
(* yields the same list.                                                   *)
(***************************************************************************)
C13_SanitizeIdempotent ==
    pc = "resanitized" => resanitized = sanitized

(***************************************************************************)
(* C14.  For every raw text and every positive max_length, sanitize_codes  *)
(* returns the non-blank lines of the input in their original order        *)
(* (trimmed, and cut to max_length), and every returned code is non-empty, *)
(* has no leading or trailing white space and is at most max_length long.  *)
(***************************************************************************)
\* the trimmed non-blank lines of a text, in order
RECURSIVE NonBlankLines(_)
NonBlankLines(lines) ==
    IF lines = <<>> THEN <<>>
    ELSE IF IsBlank(lines[1]) THEN NonBlankLines(Tail(lines))
    ELSE <<strip(lines[1])>> \o NonBlankLines(Tail(lines))

\* s starts with p
StartsWith(s, p) == Len(p) <= Len(s) /\ SubSeq(s, 1, Len(p)) = p

C14_SanitizedCodes ==
    (pc \in {"sanitized", "resanitized"} /\ max_length > 0) =>
        LET kept == NonBlankLines(split(normalize_newlines(raw_text)))
        IN  /\ Len(sanitized) = Len(kept)
            /\ \A i \in 1..Len(sanitized) :
                 /\ StartsWith(kept[i], sanitized[i])
                 /\ sanitized[i] # <<>>
                 /\ sanitized[i][1] \notin Whitespace
                 /\ sanitized[i][Len(sanitized[i])] \notin Whitespace
                 /\ Len(sanitized[i]) <= max_length

(***************************************************************************)
(* C18.  Given a page that contains both a data-crumb attribute and a      *)
(* script-embedded crumb with a different value, extract_crumb_from_page   *)
(* returns the data-attribute value: pattern 1 wins over pattern 2.        *)
(***************************************************************************)
\* the nodes of the fetched page of the given kind
NodesOf(kind) == SelectSeq(site.page, LAMBDA n : n.kind = kind)

\* the page was fetched and searched
Searched ==
    pc = "extracted" /\ site.nav = "ok" /\ fetches = 1

\* some script holds the quoted form with a value other than v
ScriptCrumbOtherThan(v) ==
    \E i \in 1..Len(NodesOf("script")) :
        \E f \in {NodesOf("script")[i].text[j] :
                     j \in 1..Len(NodesOf("script")[i].text)} :
            f.form = "quoted" /\ f.value # v

C18_DataCrumbWins ==
    (Searched /\ NodesOf("attr") # <<>>
       /\ ScriptCrumbOtherThan(NodesOf("attr")[1].value)) =>
        /\ ret = <<TRUE>>
        /\ extractor.crumb = Some(NodesOf("attr")[1].value)

\* a script with "crumb": "y" ahead of an element with data-crumb="x"
C18_Witness ==
    /\ Searched
    /\ Len(site.page) >= 2
    /\ site.page[1].kind = "script"
    /\ site.page[1].text = <<Fragment("quoted", <<"y">>)>>
    /\ site.page[2] = Node("attr", <<"x">>, <<>>)
    /\ extractor.crumb = Some(<<"x">>)

(***************************************************************************)
(* C19.  extract_crumb_from_page applies the five patterns as a strict     *)
(* priority chain over the whole page: (1) data-crumb attribute, (2) the   *)
(* quoted form in script content, (3) the bare form in script content,     *)
(* (4) the entity-escaped form in the raw markup, (5) the quoted form in   *)
(* the raw markup.  The value of pattern k is returned only if none of the *)
(* patterns 1..k-1 matches anywhere in the page, whatever the number of    *)
(* script elements.                                                        *)
(***************************************************************************)
\* pattern k matches somewhere in the fetched page
PatternMatches(k) ==
    CASE k = 1 -> NodesOf("attr") # <<>>
      [] k = 2 -> matches(html_text(NodesOf("script")), "quoted") # <<>>
      [] k = 3 -> matches(html_text(NodesOf("script")), "bare") # <<>>
      [] k = 4 -> matches(html_text(site.page), "escaped") # <<>>
      [] k = 5 -> matches(html_text(site.page), "quoted") # <<>>

\* the first match of pattern k in the fetched page
FirstMatch(k) ==
    CASE k = 1 -> NodesOf("attr")[1].value
      [] k = 2 -> matches(html_text(NodesOf("script")), "quoted")[1].value
      [] k = 3 -> matches(html_text(NodesOf("script")), "bare")[1].value
      [] k = 4 -> matches(html_text(site.page), "escaped")[1].value
      [] k = 5 -> matches(html_text(site.page), "quoted")[1].value

\* the pattern of highest priority that matches somewhere in the page
Foremost == CHOOSE k \in 1..5 :
                PatternMatches(k) /\ \A j \in 1..(k - 1) : ~ PatternMatches(j)

C19_StrictPriorityChain ==
    Searched =>
        /\ ret = <<TRUE>> <=> \E k \in 1..5 : PatternMatches(k)
        /\ ret = <<TRUE>> => extractor.crumb = Some(FirstMatch(Foremost))

(***************************************************************************)
(* C15.  For every BandcampVerificator whose constructor returns normally, *)
(* the stored client_id and session are non-empty and no longer than       *)
(* MAX_CLIENT_ID_LENGTH and MAX_SESSION_LENGTH respectively.               *)
(***************************************************************************)
\* the constructor has returned normally
Constructed == pc = "ready"

C15_StoredCookiesValid ==
    Constructed =>
        /\ client_id # None /\ session # None
        /\ client_id[1] # <<>>
        /\ Len(client_id[1]) <= MAX_CLIENT_ID_LENGTH
        /\ session[1] # <<>>
        /\ Len(session[1]) <= MAX_SESSION_LENGTH

(***************************************************************************)
(* C16.  Constructing a BandcampVerificator with an empty, whitespace-only *)
(* or oversized client_id or session is rejected as a validation failure   *)
(* before any browser launch or network activity takes place, for every    *)
(* value of crumb, an absent one included: no browser is launched and no   *)
(* page is fetched at any moment of such a construction, and it ends in    *)
(* the ValueError of the validation.                                       *)
(***************************************************************************)
\* the argument is a string that is empty, white space only, or too long
BadCookie(arg, max_len) ==
    arg # None /\ (IsBlank(arg[1]) \/ Len(arg[1]) > max_len)

C16_RejectedBeforeLaunch ==
    (BadCookie(clientArg, MAX_CLIENT_ID_LENGTH)
       \/ BadCookie(sessionArg, MAX_SESSION_LENGTH)) =>
        /\ launches = 0 /\ fetches = 0
        /\ pw = "none" /\ browser = "none"
        /\ pc \in {"new", "validate", "rejected"}

(***************************************************************************)
(* C17.  auto_extract reports success=false only when client_id or session *)
(* could not be obtained: whenever a cookie store it reads holds both the  *)
(* client_id and the session cookie, it returns success=true with both     *)
(* values in the credentials dictionary, also when the crumb extraction    *)
(* failed; and the call returns, it does not raise.                        *)
(***************************************************************************)
\* a store among those tried can be read and holds client_id and session
BothCookiesInAJar ==
    /\ cookie_lib
    /\ \E i \in 1..Len(to_try(browser_name)) :
         LET jar == jars[to_try(browser_name)[i]]
         IN  ~ jar.raises /\ jar.client_id /\ jar.session

C17_AutoExtractSuccess ==
    (pc = "auto_extracted" /\ BothCookiesInAJar) =>
        /\ ret[1].success = TRUE
        /\ DOMAIN ret[1].credentials = {"client_id", "session", "crumb"}
        /\ ret[1].credentials.client_id # <<>>
        /\ ret[1].credentials.session # <<>>

(***************************************************************************)
(* C20.  write_results_to_csv produces, for every result list of any       *)
(* length, a file with the header                                          *)
(* no,code,http_status,delay_sec,elapsed_ms,response,success followed by   *)
(* exactly one row per result in list order, with `no` running 1..n and    *)
(* dict bodies written as their JSON string.                               *)
(***************************************************************************)
C20_CsvRows ==
    pc = "written" =>
        /\ csv_file # None
        /\ csv_file[1].header = <<"no", "code", "http_status", "delay_sec",
                                  "elapsed_ms", "response", "success">>
        /\ Len(csv_file[1].rows) = Len(to_write)
        /\ \A i \in 1..Len(to_write) :
             LET row == csv_file[1].rows[i]
                 r == to_write[i]
             IN  /\ row.no = i
                 /\ row.code = r.code
                 /\ row.http_status = r.status
                 /\ row.delay_sec = r.delay_sec
                 /\ row.elapsed_ms = r.elapsed_ms
                 /\ row.success = r.success
                 /\ r.body.kind = "dict" =>
                      row.response = [form |-> "json", of |-> r.body]

(***************************************************************************)
(* C21.  Writing any result list with write_results_to_json and parsing    *)
(* the file again gives `total` equal to the number of results and a       *)
(* `results` array of the same length and order, each entry with the code  *)
(* and the success of the original.                                        *)
(***************************************************************************)
C21_JsonRoundTrip ==
    pc = "json_reparsed" =>
        LET doc == reparsed[1]
        IN  /\ doc["total"] = Len(to_write)
            /\ Len(doc["results"]) = Len(to_write)
            /\ \A i \in 1..Len(to_write) :
                 /\ doc["results"][i]["code"] = to_write[i].code
                 /\ doc["results"][i]["success"] = to_write[i].success

\* a list of two records of different codes and verdicts was written over
\* an older file and read back
C21_Witness ==
    /\ pc = "json_reparsed"
    /\ Len(to_write) >= 2
    /\ to_write[1].code # to_write[2].code
    /\ to_write[1].success # to_write[2].success
    /\ json_file # OldJsonFile

(***************************************************************************)
(* C24.  verify_batch invokes progress_callback exactly once per attempted *)
(* code, after the record of that code has been appended and before the    *)
(* next consultation of stop_flag, with current = the number of records so *)
(* far (1, 2, ...), total = len(codes) and result = the record of that     *)
(* code; it is never invoked for a code that cancellation skipped.  In     *)
(* terms of the state: the calls made so far are those for the records of  *)
(* the list, in order, the newest record being without its call only       *)
(* between the append and the call; and stop_flag has been consulted as    *)
(* often as the callback was called, or once more: the consultation of the *)
(* code in progress, or the one that cancelled the rest.                   *)
(***************************************************************************)
C24_ProgressPerRecord ==
    hasCb =>
        /\ Len(cbLog) = IF pc = "progress" THEN Len(results) - 1 ELSE Len(results)
        /\ \A i \in 1..Len(cbLog) :
             cbLog[i] = [current |-> i, total |-> Len(codes), result |-> results[i]]
        /\ hasStop =>
             /\ consults \in {Len(cbLog), Len(cbLog) + 1}
             /\ pc = "check" => consults = Len(cbLog)
             /\ (pc = "returned" /\ stopAt # 0) =>
                    /\ stopAt = Len(cbLog) + 1
                    /\ Len(cbLog) < Len(codes)

\* two codes were verified and reported, the third consultation of stop_flag
\* cancelled the rest
C24_Witness ==
    /\ hasCb
    /\ hasStop
    /\ pc = "returned"
    /\ stopAt = 3
    /\ Len(codes) > 2
    /\ Len(cbLog) = 2
    /\ cbLog[1].result # cbLog[2].result

(***************************************************************************)
(* C28.  Whenever extract_from_browser returns True, the client_id, the    *)
(* session and the identity it has stored were all read from the cookie    *)
(* jar of one and the same browser: values found in a browser whose jar    *)
(* was incomplete or failed are never combined with values of a browser    *)
(* tried later.                                                            *)
(***************************************************************************)
C28_OneJar ==
    pc = "cookies_read" =>
        \E i \in 1..Len(browsers) :
            /\ extractor.client_id = CookieOf(browsers[i])
            /\ extractor.session = CookieOf(browsers[i])
            /\ extractor.identity = CookieOf(browsers[i])

(***************************************************************************)
(* C29.  Whenever extract_crumb_from_page returns True, self.crumb is a    *)
(* non-empty string, for every page content.                               *)
(***************************************************************************)
C29_CrumbNonEmpty ==
    (pc = "extracted" /\ ret = <<TRUE>>) =>
        /\ extractor.crumb # None
        /\ extractor.crumb[1] # <<>>

(***************************************************************************)
(* C30.  If the BandcampVerificator constructor returns normally, its      *)
(* crumb is a non-empty string of at most MAX_CRUMB_LENGTH characters;     *)
(* when no crumb is supplied (empty or None) and the auto-extraction of    *)
(* the crumb fails, construction raises ValueError and no verificator      *)
(* exists.                                                                 *)
(***************************************************************************)
C30_CrumbOrValueError ==
    /\ Constructed =>
          /\ crumb # None
          /\ crumb[1] # <<>>
          /\ Len(crumb[1]) <= MAX_CRUMB_LENGTH
    /\ (pc \notin {"new", "validate"} /\ ~ truthy(crumbArg) /\ method = 0) =>
          pc = "rejected"

\* the command has ended
CliEnded == pc \in {"cli_exited", "cli_crashed", "cli_done"}

(***************************************************************************)
(* C25.  In the CLI verify command (not --dry-run), once verify_batch has  *)
(* returned, the command goes on to print the summary and to write the     *)
(* collected results to the --output path in the chosen format (CSV or     *)
(* JSON) before it ends.  verify_batch has returned when every code has    *)
(* its record: the command gives no stop_flag.                             *)
(***************************************************************************)
C25_SummaryAndSave ==
    (CliEnded /\ Len(results) = Len(codes)) =>
        /\ \E i \in 1..Len(printed) : printed[i] = Summary(results)
        /\ format = "csv" =>
              /\ csv_file # None
              /\ Len(csv_file[1].rows) = Len(results)
        /\ format = "json" =>
              /\ json_file # None
              /\ json_load(json_file[1])["total"] = Len(results)

(***************************************************************************)
(* C27.  If the browser automation surface cannot be launched, or the      *)
(* initial page load fails, while a BandcampVerificator is being           *)
(* constructed, the failure is surfaced to the caller as a single reported *)
(* failure (CLI: error message and exit code) and never as an uncaught     *)
(* exception that crashes the process.  The command has ended with the     *)
(* browser set up and no code begun exactly when _init_browser raised.     *)
(***************************************************************************)
C27_LaunchFailureReported ==
    (CliEnded /\ "page" \in attrs /\ begun = 0) =>
        /\ pc = "cli_exited"
        /\ printed = <<ErrorMessage>>
        /\ exit_code = Some(1)

\* the request carries a non-empty csrf_token equal to the one of the session
TokenValid(q) ==
    /\ q.json
    /\ q.csrf_token # None
    /\ q.csrf_token[1] # <<>>
    /\ cookie.csrf_token # None
    /\ q.csrf_token[1] = cookie.csrf_token[1]

\* the handler has done nothing for the request but, at most, answer it
NothingDone(q) ==
    /\ q.at \in {"received", "answered"}
    /\ q.key = <<>>
    /\ q.verificator = 0
    /\ q.calls = 0
    /\ q.extractions = 0

(***************************************************************************)
(* C22.  The /api/verify and /api/auto-extract handlers create no          *)
(* verificator, call no verify_code and run no credential extraction       *)
(* unless the csrf_token of the request is non-empty and equal to the      *)
(* csrf_token stored in the session of the caller; in every other case     *)
(* (missing token, mismatching token, session without a token) they answer *)
(* 419 and do nothing else.                                                *)
(***************************************************************************)
C22_CsrfGate ==
    \A n \in Requests :
        ~ TokenValid(requests[n]) =>
            /\ NothingDone(requests[n])
            /\ requests[n].response # None => requests[n].response[1].status = 419

(***************************************************************************)
(* C23.  In the `verificators` cache of the service, lookup-and-creation   *)
(* for a given key is mutually exclusive: under any interleaving of        *)
(* concurrent /api/verify requests that map to the same key, at most one   *)
(* BandcampVerificator (and hence one browser) is ever created for that    *)
(* key, and every request uses that instance.                              *)
(***************************************************************************)
C23_OneVerificatorPerKey ==
    /\ \A i, j \in 1..Len(created) : created[i] = created[j] => i = j
    /\ \A m, n \in Requests :
         (/\ requests[m].key = requests[n].key
          /\ requests[m].verificator # 0
          /\ requests[n].verificator # 0)
            => requests[m].verificator = requests[n].verificator

(***************************************************************************)
(* C26.  For a POST /api/verify carrying a matching CSRF token and a valid *)
(* code, client_id and session, the handler obtains the verificator of the *)
(* session, calls verify_code exactly once and answers HTTP 200 with the   *)
(* ok, status, delay_sec, elapsed_ms, body and error fields of that        *)
(* result; per-code failures are conveyed in those fields, not as a 500    *)
(* response.                                                               *)
(***************************************************************************)
C26_VerifyAnswers200 ==
    \A n \in Requests :
        (/\ requests[n].endpoint = "verify"
         /\ TokenValid(requests[n])
         /\ requests[n].verificator # 0
         /\ requests[n].response # None)
            => /\ requests[n].calls = 1
               /\ requests[n].response[1].status = 200
               /\ requests[n].response[1].members # None

====
